---- MODULE Spec2Model ----
(***************************************************************************)
(* A model of morse/services/supervision_services.py: the simulation       *)
(* supervision services (component activation, per-object physics and pose *)
(* services, the scene snapshot and the details() report).                *)
(*                                                                         *)
(* Numbers.  Positions, velocities, forces and bounding-box corners are    *)
(* integer 3-vectors.  Quaternion components are stored in units of 1/2,   *)
(* so that the 24 unit quaternions with components in {0, +-1/2, +-1}      *)
(* (<<2,0,0,0>>, <<1,1,-1,1>>, ...) and their rotation matrices (signed    *)
(* permutation matrices) are exact in integer arithmetic.                  *)
(*                                                                         *)
(* The engine API (KX_GameObject, mathutils, json) is modelled by its      *)
(* documented contract: setLinearVelocity/setAngularVelocity set the       *)
(* velocity, applyForce/applyTorque "set the game object's force/torque",  *)
(* suspendDynamics/restoreDynamics switch the object's physics off and on, *)
(* mathutils.Vector takes a sequence of at least 2 numbers,                *)
(* mathutils.Quaternion a sequence of exactly 4, and the worldPosition     *)
(* setter takes a vector of exactly 3.  A write to an object's world pose  *)
(* is modelled on that object alone.  Every number of the model is exactly *)
(* representable in the engine's single precision.                         *)
(***************************************************************************)
EXTENDS Integers, Sequences, FiniteSets, TLC

VARIABLES
    objects,           \* blenderapi.scene().objects: name -> game object
    componentDict,     \* persistantstorage().componentDict: name -> _active
    request_managers,  \* morse_services.request_managers(), in iteration order
    datastreams,       \* persistantstorage().datastreams: component -> stream
    pc,                \* position of the in-flight set_object_pose ("idle": none)
    call,              \* locals of the in-flight set_object_pose
    result,            \* what the last service call returned (none: in flight, or the engine stepped since)
    calls,             \* number of scene-mutating service calls made so far
    steps,             \* number of physics steps made so far
    lastSet,           \* the last successful set_object_pose, until the scene is changed again
    obs                \* what a physics step between the two pose writes did

vars == <<objects, componentDict, request_managers, datastreams, pc, call,
          result, calls, steps, lastSet, obs>>

----------------------------------------------------------------------------
(* Bounds of the model *)

\* greatest coordinate of a position (positions live in 0..MaxCoord per axis)
MaxCoord == 1
\* greatest number of scene-mutating service calls in one run
MaxCalls == 1
\* greatest number of physics steps in one run
MaxSteps == 1
\* greatest number of attached middlewares (request managers)
MaxManagers == 2

None == "None"
NoValue == "none"

----------------------------------------------------------------------------
(* Vectors, quaternions and matrices (mathutils) *)

Zero3 == <<0, 0, 0>>
Identity3 == << <<1, 0, 0>>, <<0, 1, 0>>, <<0, 0, 1>> >>

VecAdd(u, v) == <<u[1] + v[1], u[2] + v[2], u[3] + v[3]>>
VecSub(u, v) == <<u[1] - v[1], u[2] - v[2], u[3] - v[3]>>

\* matrix * vector
MatVec(m, v) ==
    << m[1][1] * v[1] + m[1][2] * v[2] + m[1][3] * v[3],
       m[2][1] * v[1] + m[2][2] * v[2] + m[2][3] * v[3],
       m[3][1] * v[1] + m[3][2] * v[2] + m[3][3] * v[3] >>

MatMul(m, n) ==
    [i \in 1..3 |-> [j \in 1..3 |->
        m[i][1] * n[1][j] + m[i][2] * n[2][j] + m[i][3] * n[3][j]]]

\* the exact square root of a perfect square
Isqrt(n) == CHOOSE k \in 0..n : k * k = n

\* Quaternion.to_matrix(): q = <<w, x, y, z>> in units of 1/2
\*   [ 1-2(yy+zz)  2(xy-wz)    2(xz+wy)   ]
\*   [ 2(xy+wz)    1-2(xx+zz)  2(yz-wx)   ]
\*   [ 2(xz-wy)    2(yz+wx)    1-2(xx+yy) ]
to_matrix(q) ==
    LET w == q[1]  x == q[2]  y == q[3]  z == q[4] IN
    << << 1 - (y * y + z * z) \div 2, (x * y - w * z) \div 2, (x * z + w * y) \div 2 >>,
       << (x * y + w * z) \div 2, 1 - (x * x + z * z) \div 2, (y * z - w * x) \div 2 >>,
       << (x * z - w * y) \div 2, (y * z + w * x) \div 2, 1 - (x * x + y * y) \div 2 >> >>

\* Matrix.to_quaternion(): a record of the four components, in units of 1/2.
\* The trace branch when w # 0, else the branch of the greatest diagonal entry.
to_quaternion(m) ==
    LET t == 1 + m[1][1] + m[2][2] + m[3][3] IN
    IF t > 0
    THEN LET s == Isqrt(t) IN
         [w |-> s,
          x |-> (m[3][2] - m[2][3]) \div s,
          y |-> (m[1][3] - m[3][1]) \div s,
          z |-> (m[2][1] - m[1][2]) \div s]
    ELSE IF m[1][1] > m[2][2] /\ m[1][1] > m[3][3]
    THEN LET s == Isqrt(1 + m[1][1] - m[2][2] - m[3][3]) IN
         [w |-> (m[3][2] - m[2][3]) \div s,
          x |-> s,
          y |-> (m[1][2] + m[2][1]) \div s,
          z |-> (m[1][3] + m[3][1]) \div s]
    ELSE IF m[2][2] > m[3][3]
    THEN LET s == Isqrt(1 + m[2][2] - m[1][1] - m[3][3]) IN
         [w |-> (m[1][3] - m[3][1]) \div s,
          x |-> (m[1][2] + m[2][1]) \div s,
          y |-> s,
          z |-> (m[2][3] + m[3][2]) \div s]
    ELSE LET s == Isqrt(1 + m[3][3] - m[1][1] - m[2][2]) IN
         [w |-> (m[2][1] - m[1][2]) \div s,
          x |-> (m[1][3] + m[3][1]) \div s,
          y |-> (m[2][3] + m[3][2]) \div s,
          z |-> s]

Coords == 0..MaxCoord
Positions == { <<x, y, z>> : x \in Coords, y \in Coords, z \in Coords }

----------------------------------------------------------------------------
(* JSON texts and their parsing *)

\* A JSON text is modelled by what json.loads makes of it: a list of numbers,
\* a single number, or nothing (the text is malformed).
JsonList(items) == [kind |-> "list", items |-> items]
JsonNumber(n) == [kind |-> "number", items |-> <<n>>]
JsonMalformed == [kind |-> "malformed", items |-> <<>>]

\* json.loads(text): ValueError on a malformed text
json_loads(text) ==
    IF text.kind = "malformed"
    THEN [ok |-> FALSE, fault |-> "ValueError", val |-> text]
    ELSE [ok |-> TRUE, fault |-> NoValue, val |-> text]

\* mathutils.Vector(seq): a sequence of at least 2 numbers
Vector(v) ==
    IF v.kind = "list" /\ Len(v.items) >= 2
    THEN [ok |-> TRUE, fault |-> NoValue, val |-> v.items]
    ELSE [ok |-> FALSE,
          fault |-> IF v.kind = "list" THEN "ValueError" ELSE "TypeError",
          val |-> <<>>]

\* mathutils.Quaternion(seq): a sequence of exactly 4 numbers, <<w, x, y, z>>
Quaternion(v) ==
    IF v.kind = "list" /\ Len(v.items) = 4
    THEN [ok |-> TRUE, fault |-> NoValue, val |-> v.items]
    ELSE [ok |-> FALSE,
          fault |-> IF v.kind = "list" THEN "ValueError" ELSE "TypeError",
          val |-> <<>>]

----------------------------------------------------------------------------
(* The scene: game objects and the engine calls the services make on them *)

\* Special Morse items to remove from the list (get_scene_objects)
remove_items == {"Scene_Script_Holder", "CameraFP", "__default__cam__"}

AtRest == [linV |-> Zero3, angV |-> Zero3, force |-> Zero3, torque |-> Zero3]
Moving == [linV |-> <<1, 0, 0>>, angV |-> <<0, 0, 1>>,
           force |-> <<0, 1, 0>>, torque |-> <<0, 0, 1>>]

GameObject(parent, position, orientation, motion) ==
    [parent |-> parent,
     worldPosition |-> position,
     worldOrientation |-> orientation,
     linV |-> motion.linV, angV |-> motion.angV,
     force |-> motion.force, torque |-> motion.torque,
     suspended |-> FALSE,
     visible |-> TRUE]

suspendDynamics(o) == [o EXCEPT !.suspended = TRUE]
restoreDynamics(o) == [o EXCEPT !.suspended = FALSE]
setLinearVelocity(o, v) == [o EXCEPT !.linV = v]
setAngularVelocity(o, v) == [o EXCEPT !.angV = v]
applyForce(o, f) == [o EXCEPT !.force = f]
applyTorque(o, t) == [o EXCEPT !.torque = t]

\* blender_object.children
children(scene, name) == { c \in DOMAIN scene : scene[c].parent = name }

\* the objects below `name` in the hierarchy
RECURSIVE Descendants(_, _)
Descendants(scene, name) ==
    children(scene, name) \cup
    UNION { Descendants(scene, c) : c \in children(scene, name) }

\* KX_GameObject.setVisible(visible, recursive)
setVisible(scene, name, visible, recursive) ==
    LET touched == {name} \cup (IF recursive THEN Descendants(scene, name) ELSE {}) IN
    [n \in DOMAIN scene |->
        IF n \in touched THEN [scene[n] EXCEPT !.visible = visible] ELSE scene[n]]

\* the worldPosition setter: a vector of exactly 3 components
worldPositionSetter(o, v) ==
    IF Len(v) = 3
    THEN [ok |-> TRUE, fault |-> NoValue, obj |-> [o EXCEPT !.worldPosition = v]]
    ELSE [ok |-> FALSE, fault |-> "AttributeError", obj |-> o]

\* blenderapi.objectdata(name).bound_box: the 8 corners of the static geometry
bound_box(name) ==
    LET lo == IF name = "A" THEN -1 ELSE 0
        hi == 1 IN
    << <<lo, lo, lo>>, <<lo, lo, hi>>, <<lo, hi, hi>>, <<lo, hi, lo>>,
       <<hi, lo, lo>>, <<hi, lo, hi>>, <<hi, hi, hi>>, <<hi, hi, lo>> >>

\* b_obj.get('Type', ''): the game property Type, '' when unset
TypeProperty(name) == IF name = "A" THEN "box" ELSE ""

\* get_obj_by_name without the test of line 210: some object is returned
get_obj_by_name_unchecked(scene, name) ==
    [ok |-> TRUE, fault |-> NoValue,
     obj |-> IF name \in DOMAIN scene THEN name ELSE CHOOSE n \in DOMAIN scene : TRUE]

\* get_obj_by_name(name), lines 204-213
get_obj_by_name(scene, name) ==
    IF name \notin DOMAIN scene
    THEN [ok |-> FALSE, fault |-> "MorseRPCInvokationError", obj |-> None]
    ELSE [ok |-> TRUE, fault |-> NoValue, obj |-> name]

----------------------------------------------------------------------------
(* What a finished service call leaves behind *)

Return(op, name, value, pre, log) ==
    [op |-> op, name |-> name, status |-> "ok", fault |-> NoValue,
     value |-> value, pre |-> pre, log |-> log]

Raise(op, name, fault, pre, log) ==
    [op |-> op, name |-> name, status |-> "fault", fault |-> fault,
     value |-> NoValue, pre |-> pre, log |-> log]

NoResult ==
    [op |-> NoValue, name |-> None, status |-> NoValue,
     fault |-> NoValue, value |-> NoValue, pre |-> NoValue, log |-> <<>>]

NoCall == [name |-> None, args |-> <<>>, pos |-> <<>>, ori |-> <<>>,
           pre |-> NoValue, log |-> <<>>]

NoSet == [name |-> None, position |-> <<>>, orientation |-> <<>>]

----------------------------------------------------------------------------
(* Inputs of the service calls *)

SceneNames == {"A", "B"}
NameInputs == SceneNames \cup {"does-not-exist"}

\* unit quaternions <<w, x, y, z>>: the identity and its negative, a half turn
\* about each axis, and a third of a turn about a diagonal
QuaternionInputs ==
    { <<2, 0, 0, 0>>, <<-2, 0, 0, 0>>, <<0, 2, 0, 0>>, <<0, 0, 2, 0>>,
      <<0, 0, 0, -2>>, <<-1, 1, -1, 1>> }

PositionInputs ==
    { JsonList(<<1, 0, 0>>), JsonList(<<0, 1, 0>>), JsonList(<<0, MaxCoord, 1>>),
      JsonMalformed, JsonNumber(1), JsonList(<<1>>), JsonList(<<1, 0>>) }

OrientationInputs ==
    { JsonList(q) : q \in QuaternionInputs } \cup
    { JsonMalformed, JsonNumber(2), JsonList(<<2, 0, 0>>),
      JsonList(<<2, 0, 0, 0, 0>>) }

PointInputs ==
    { JsonMalformed, JsonList(<<1, 0>>), JsonList(<<1, 1, 1>>),
      JsonList(<<0, 1, 0>>) }

----------------------------------------------------------------------------
(* The values the query services compute *)

\* json.dumps(value): the JSON text of a list
json_dumps(value) == JsonList(value)

\* dict.update: the entries of `b` added to `a`, replacing those of the same key
update(a, b) ==
    [k \in DOMAIN a \cup DOMAIN b |-> IF k \in DOMAIN b THEN b[k] ELSE a[k]]

\* get_object_pose with the scalar component last
ObjectPose_scalar_last(o) ==
    LET pos == o.worldPosition
        ori == to_quaternion(o.worldOrientation) IN
    json_dumps(<< <<pos[1], pos[2], pos[3]>>, <<ori.x, ori.y, ori.z, ori.w>> >>)

\* get_object_pose, lines 255-260: [[pos.x, pos.y, pos.z], [ori.w, ori.x, ori.y, ori.z]]
ObjectPose(o) ==
    LET pos == o.worldPosition
        ori == to_quaternion(o.worldOrientation) IN
    json_dumps(<< <<pos[1], pos[2], pos[3]>>, <<ori.w, ori.x, ori.y, ori.z>> >>)

\* get_object_bbox, lines 327-332
LocalBBox(name) ==
    LET bb == bound_box(name) IN
    json_dumps([c \in 1..Len(bb) |-> [i \in 1..3 |-> bb[c][i]]])

\* get_object_global_bbox, lines 300-314: world_ori * corner + world_pos
GlobalBBox(o, name) ==
    LET bb == bound_box(name)
        bbox_local == [c \in 1..Len(bb) |-> [i \in 1..3 |-> bb[c][i]]]
        world_pos == o.worldPosition
        world_ori == o.worldOrientation IN
    json_dumps([c \in 1..Len(bbox_local) |->
                   VecAdd(MatVec(world_ori, bbox_local[c]), world_pos)])

\* transform_to_obj_frame, lines 358-364: world_ori * point + world_pos
TransformPoint(o, point) ==
    LET parsed == json_loads(point)
        vec == IF parsed.ok THEN Vector(parsed.val) ELSE parsed IN
    IF ~parsed.ok THEN [ok |-> FALSE, fault |-> parsed.fault, val |-> <<>>]
    ELSE IF ~vec.ok THEN [ok |-> FALSE, fault |-> vec.fault, val |-> <<>>]
    ELSE IF Len(vec.val) # 3 THEN [ok |-> FALSE, fault |-> "ValueError", val |-> <<>>]
    ELSE [ok |-> TRUE, fault |-> NoValue,
          val |-> VecAdd(MatVec(o.worldOrientation, vec.val), o.worldPosition)]

RECURSIVE get_structured_children_of(_, _)
RECURSIVE StructuredChildren(_, _)

\* get_structured_children_of reading the position relative to the parent
get_structured_children_of_local(scene, name) ==
    LET orientation == to_quaternion(scene[name].worldOrientation)
        position == IF scene[name].parent = None THEN scene[name].worldPosition
                    ELSE VecSub(scene[name].worldPosition,
                                scene[scene[name].parent].worldPosition) IN
    name :> << StructuredChildren(scene, children(scene, name)),
               <<position[1], position[2], position[3]>>,
               <<orientation.x, orientation.y, orientation.z, orientation.w>> >>

\* get_structured_children_of listing the orientation scalar first
get_structured_children_of_scalar_first(scene, name) ==
    LET orientation == to_quaternion(scene[name].worldOrientation)
        position == scene[name].worldPosition IN
    name :> << StructuredChildren(scene, children(scene, name)),
               <<position[1], position[2], position[3]>>,
               <<orientation.w, orientation.x, orientation.y, orientation.z>> >>

\* get_structured_children_of, lines 166-178:
\* {name: [children_dictionary, position, orientation]}
get_structured_children_of(scene, name) ==
    LET orientation == to_quaternion(scene[name].worldOrientation)
        position == scene[name].worldPosition IN
    name :> << StructuredChildren(scene, children(scene, name)),
               <<position[1], position[2], position[3]>>,
               <<orientation.x, orientation.y, orientation.z, orientation.w>> >>

\* the loop of lines 175-177 over the children `cs`
StructuredChildren(scene, cs) ==
    IF cs = {} THEN <<>>
    ELSE LET c == CHOOSE x \in cs : TRUE IN
         update(StructuredChildren(scene, cs \ {c}),
                get_structured_children_of(scene, c))

\* top_levelers without the test on remove_items
top_levelers_unfiltered(scene) ==
    { o \in DOMAIN scene : scene[o].parent = None }

\* get_scene_objects, lines 191-202
top_levelers(scene) ==
    { o \in DOMAIN scene : scene[o].parent = None /\ ~(o \in remove_items) }

RECURSIVE SceneObjectsOf(_, _)
SceneObjectsOf(scene, tops) ==
    IF tops = {} THEN <<>>
    ELSE LET obj == CHOOSE x \in tops : TRUE IN
         update(SceneObjectsOf(scene, tops \ {obj}),
                get_structured_children_of(scene, obj))

SceneObjects(scene) == SceneObjectsOf(scene, top_levelers(scene))

----------------------------------------------------------------------------
(* The services on scene objects.  Service calls do not overlap: each one  *)
(* starts when no set_object_pose is in flight.                            *)

Idle == pc = "idle"

\* what every service on scene objects leaves alone
OtherUnchanged == UNCHANGED <<componentDict, request_managers, datastreams>>

\* a call that may change the scene: counted, and it ends the pose round trip
Mutator ==
    /\ Idle
    /\ calls < MaxCalls
    /\ calls' = calls + 1
    /\ lastSet' = NoSet
    /\ UNCHANGED <<pc, call, steps, obs>>
    /\ OtherUnchanged

\* a call that only reads the scene
Query ==
    /\ Idle
    /\ UNCHANGED <<objects, pc, call, calls, steps, lastSet, obs>>
    /\ OtherUnchanged

\* suspend_dynamics, lines 64-72
suspend_dynamics ==
    /\ Mutator
    /\ objects' = [n \in DOMAIN objects |-> suspendDynamics(objects[n])]
    /\ result' = Return("suspend_dynamics", None, "Physics is suspended",
                        objects, <<>>)

\* restore_dynamics, lines 75-83
restore_dynamics ==
    /\ Mutator
    /\ objects' = [n \in DOMAIN objects |-> restoreDynamics(objects[n])]
    /\ result' = Return("restore_dynamics", None, "Physics is resumed",
                        objects, <<>>)

\* set_object_visibility, lines 216-228
set_object_visibility(object_name, visible, do_children) ==
    /\ Mutator
    /\ LET b == get_obj_by_name(objects, object_name) IN
       IF ~b.ok
       THEN /\ objects' = objects
            /\ result' = Raise("set_object_visibility", object_name, b.fault,
                               objects, <<>>)
       ELSE /\ objects' = setVisible(objects, b.obj, visible, do_children)
            /\ result' = Return("set_object_visibility", object_name, visible,
                                objects, <<>>)

\* set_object_dynamics, lines 231-246
set_object_dynamics(object_name, state) ==
    /\ Mutator
    /\ LET b == get_obj_by_name(objects, object_name) IN
       IF ~b.ok
       THEN /\ objects' = objects
            /\ result' = Raise("set_object_dynamics", object_name, b.fault,
                               objects, <<>>)
       ELSE /\ objects' = [objects EXCEPT ![b.obj] =
                              IF state THEN restoreDynamics(@) ELSE suspendDynamics(@)]
            /\ result' = Return("set_object_dynamics", object_name, state,
                                objects, <<>>)

\* get_object_pose, lines 249-260
get_object_pose(object_name) ==
    /\ Query
    /\ LET b == get_obj_by_name(objects, object_name) IN
       result' = IF ~b.ok
                 THEN Raise("get_object_pose", object_name, b.fault, objects, <<>>)
                 ELSE Return("get_object_pose", object_name,
                             ObjectPose(objects[b.obj]), objects, <<>>)

\* get_object_global_bbox, lines 290-314
get_object_global_bbox(object_name) ==
    /\ Query
    /\ LET b == get_obj_by_name(objects, object_name) IN
       result' = IF ~b.ok
                 THEN Raise("get_object_global_bbox", object_name, b.fault,
                            objects, <<>>)
                 ELSE Return("get_object_global_bbox", object_name,
                             GlobalBBox(objects[b.obj], object_name), objects, <<>>)

\* get_object_bbox, lines 317-332
get_object_bbox(object_name) ==
    /\ Query
    /\ LET b == get_obj_by_name(objects, object_name) IN
       result' = IF ~b.ok
                 THEN Raise("get_object_bbox", object_name, b.fault, objects, <<>>)
                 ELSE Return("get_object_bbox", object_name,
                             LocalBBox(object_name), objects, <<>>)

\* get_object_type, lines 335-345
get_object_type(object_name) ==
    /\ Query
    /\ LET b == get_obj_by_name(objects, object_name) IN
       result' = IF ~b.ok
                 THEN Raise("get_object_type", object_name, b.fault, objects, <<>>)
                 ELSE Return("get_object_type", object_name,
                             TypeProperty(b.obj), objects, <<>>)

\* transform_to_obj_frame, lines 348-364
transform_to_obj_frame(object_name, point) ==
    /\ Query
    /\ LET b == get_obj_by_name(objects, object_name)
           t == IF b.ok THEN TransformPoint(objects[b.obj], point) ELSE b IN
       result' = IF ~b.ok
                 THEN Raise("transform_to_obj_frame", object_name, b.fault,
                            objects, <<>>)
                 ELSE IF ~t.ok
                 THEN Raise("transform_to_obj_frame", object_name, t.fault,
                            objects, <<>>)
                 ELSE Return("transform_to_obj_frame", object_name,
                             <<t.val[1], t.val[2], t.val[3]>>, objects, <<>>)

\* get_scene_objects, lines 181-202
get_scene_objects ==
    /\ Query
    /\ result' = Return("get_scene_objects", None, SceneObjects(objects),
                        objects, <<>>)

----------------------------------------------------------------------------
(* set_object_pose, lines 263-286, one action per statement: pc names the  *)
(* statement to run next, and an exception ends the call where it is.      *)

\* lines 272-273: pos = Vector(json.loads(position)),
\*                ori = Quaternion(json.loads(orientation)).to_matrix()
PoseArguments(position, orientation) ==
    LET jp == json_loads(position)
        vp == IF jp.ok THEN Vector(jp.val) ELSE jp
        jo == json_loads(orientation)
        qo == IF jo.ok THEN Quaternion(jo.val) ELSE jo
        failed(f) == [ok |-> FALSE, fault |-> f, pos |-> <<>>, ori |-> <<>>] IN
    IF ~jp.ok THEN failed(jp.fault)
    ELSE IF ~vp.ok THEN failed(vp.fault)
    ELSE IF ~jo.ok THEN failed(jo.fault)
    ELSE IF ~qo.ok THEN failed(qo.fault)
    ELSE [ok |-> TRUE, fault |-> NoValue, pos |-> vp.val, ori |-> to_matrix(qo.val)]

\* the call with the engine call `step` recorded as done
Logged(step) == [call EXCEPT !.log = Append(@, step)]

\* a statement of the body: what it leaves alone
Statement == UNCHANGED <<result, calls, steps, lastSet, obs>> /\ OtherUnchanged

\* lines 270-273: resolve the object and parse the arguments
set_object_pose(object_name, position, orientation) ==
    /\ Idle
    /\ calls < MaxCalls
    /\ calls' = calls + 1
    /\ lastSet' = NoSet
    /\ obs' = "none"
    /\ OtherUnchanged
    /\ UNCHANGED <<objects, steps>>
    /\ LET b == get_obj_by_name(objects, object_name)
           a == PoseArguments(position, orientation)
           args == <<position, orientation>> IN
       IF ~b.ok
       THEN /\ result' = Raise("set_object_pose", object_name, b.fault,
                               objects, <<>>)
            /\ UNCHANGED <<pc, call>>
       ELSE IF ~a.ok
       THEN /\ result' = Raise("set_object_pose", object_name, a.fault,
                               objects, <<>>)
            /\ UNCHANGED <<pc, call>>
       ELSE /\ pc' = "suspendDynamics"
            /\ call' = [name |-> b.obj, args |-> args, pos |-> a.pos, ori |-> a.ori,
                        pre |-> objects, log |-> <<>>]
            /\ result' = NoResult

\* the body without its line 276: physics is left running
SetPose_suspendDynamics_missing ==
    /\ pc = "suspendDynamics"
    /\ objects' = objects
    /\ call' = Logged("suspendDynamics")
    /\ pc' = "setLinearVelocity"
    /\ Statement

\* line 276: b_obj.suspendDynamics()
SetPose_suspendDynamics ==
    /\ pc = "suspendDynamics"
    /\ objects' = [objects EXCEPT ![call.name] = suspendDynamics(@)]
    /\ call' = Logged("suspendDynamics")
    /\ pc' = "setLinearVelocity"
    /\ Statement

\* line 277: b_obj.setLinearVelocity([0.0, 0.0, 0.0], True)
SetPose_setLinearVelocity ==
    /\ pc = "setLinearVelocity"
    /\ objects' = [objects EXCEPT ![call.name] = setLinearVelocity(@, Zero3)]
    /\ call' = Logged("setLinearVelocity")
    /\ pc' = "setAngularVelocity"
    /\ Statement

\* line 278: b_obj.setAngularVelocity([0.0, 0.0, 0.0], True)
SetPose_setAngularVelocity ==
    /\ pc = "setAngularVelocity"
    /\ objects' = [objects EXCEPT ![call.name] = setAngularVelocity(@, Zero3)]
    /\ call' = Logged("setAngularVelocity")
    /\ pc' = "applyForce"
    /\ Statement

\* line 279: b_obj.applyForce([0.0, 0.0, 0.0], True)
SetPose_applyForce ==
    /\ pc = "applyForce"
    /\ objects' = [objects EXCEPT ![call.name] = applyForce(@, Zero3)]
    /\ call' = Logged("applyForce")
    /\ pc' = "applyTorque"
    /\ Statement

\* line 280 applying the torque to nothing
SetPose_applyTorque_missing ==
    /\ pc = "applyTorque"
    /\ objects' = objects
    /\ call' = Logged("applyTorque")
    /\ pc' = "worldPosition"
    /\ Statement

\* line 280: b_obj.applyTorque([0.0, 0.0, 0.0], True)
SetPose_applyTorque ==
    /\ pc = "applyTorque"
    /\ objects' = [objects EXCEPT ![call.name] = applyTorque(@, Zero3)]
    /\ call' = Logged("applyTorque")
    /\ pc' = "worldPosition"
    /\ Statement

\* line 283: b_obj.worldPosition = pos; the setter raises on a vector that
\* has not 3 components, and the exception leaves the function there
SetPose_worldPosition ==
    /\ pc = "worldPosition"
    /\ UNCHANGED <<calls, steps, lastSet, obs>>
    /\ OtherUnchanged
    /\ LET w == worldPositionSetter(objects[call.name], call.pos) IN
       IF w.ok
       THEN /\ objects' = [objects EXCEPT ![call.name] = w.obj]
            /\ call' = Logged("worldPosition")
            /\ pc' = "worldOrientation"
            /\ UNCHANGED result
       ELSE /\ objects' = objects
            /\ result' = Raise("set_object_pose", call.name, w.fault,
                               call.pre, call.log)
            /\ call' = NoCall
            /\ pc' = "idle"

\* line 284: b_obj.worldOrientation = ori
SetPose_worldOrientation ==
    /\ pc = "worldOrientation"
    /\ objects' = [objects EXCEPT ![call.name].worldOrientation = call.ori]
    /\ call' = Logged("worldOrientation")
    /\ pc' = "restoreDynamics"
    /\ Statement

\* line 286: b_obj.restoreDynamics(), and the function returns None
SetPose_restoreDynamics ==
    /\ pc = "restoreDynamics"
    /\ objects' = [objects EXCEPT ![call.name] = restoreDynamics(@)]
    /\ result' = Return("set_object_pose", call.name, None, call.pre,
                        Append(call.log, "restoreDynamics"))
    /\ lastSet' = [name |-> call.name, position |-> call.args[1].items,
                   orientation |-> call.args[2].items]
    /\ call' = NoCall
    /\ pc' = "idle"
    /\ UNCHANGED <<calls, steps, obs>>
    /\ OtherUnchanged

----------------------------------------------------------------------------
(* The physics engine: one step integrates every object whose physics is   *)
(* not suspended.  The scene is a closed box: an object that would leave   *)
(* 0..MaxCoord stops where it is.                                          *)

Clamp1(n) == IF n > 1 THEN 1 ELSE IF n < -1 THEN -1 ELSE n
ClampVec(v) == <<Clamp1(v[1]), Clamp1(v[2]), Clamp1(v[3])>>

\* a half turn about the z axis
HalfTurn == << <<-1, 0, 0>>, <<0, -1, 0>>, <<0, 0, 1>> >>

Integrate(o) ==
    IF o.suspended THEN o
    ELSE LET v == ClampVec(VecAdd(o.linV, o.force))
             a == ClampVec(VecAdd(o.angV, o.torque))
             p == VecAdd(o.worldPosition, v)
             inside == p \in Positions IN
         [o EXCEPT !.linV = IF inside THEN v ELSE Zero3,
                   !.angV = a,
                   !.force = Zero3,
                   !.torque = Zero3,
                   !.worldPosition = IF inside THEN p ELSE @,
                   !.worldOrientation =
                       IF a # Zero3 THEN MatMul(HalfTurn, @) ELSE @]

PhysicsStep ==
    /\ steps < MaxSteps
    /\ steps' = steps + 1
    /\ objects' = [n \in DOMAIN objects |-> Integrate(objects[n])]
    /\ lastSet' = NoSet
    /\ obs' = IF pc = "worldOrientation"
              THEN IF objects[call.name].suspended THEN "skipped" ELSE "integrated"
              ELSE obs
    /\ result' = NoResult
    /\ UNCHANGED <<pc, call, calls>>
    /\ OtherUnchanged

----------------------------------------------------------------------------
(* The pose and physics services on a scene of two moving objects, B a     *)
(* child of A                                                              *)

InitScene ==
    [n \in SceneNames |->
        GameObject(IF n = "B" THEN "A" ELSE None,
                   IF n = "B" THEN <<MaxCoord, 0, 0>> ELSE Zero3,
                   Identity3, Moving)]

Init ==
    /\ objects = InitScene
    /\ componentDict = <<>>
    /\ request_managers = <<>>
    /\ datastreams = <<>>
    /\ pc = "idle"
    /\ call = NoCall
    /\ result = NoResult
    /\ calls = 0
    /\ steps = 0
    /\ lastSet = NoSet
    /\ obs = "none"

SetPoseBody ==
    \/ SetPose_suspendDynamics
    \/ SetPose_setLinearVelocity
    \/ SetPose_setAngularVelocity
    \/ SetPose_applyForce
    \/ SetPose_applyTorque
    \/ SetPose_worldPosition
    \/ SetPose_worldOrientation
    \/ SetPose_restoreDynamics

Services ==
    \/ suspend_dynamics
    \/ restore_dynamics
    \/ \E n \in NameInputs, v \in BOOLEAN, r \in BOOLEAN : set_object_visibility(n, v, r)
    \/ \E n \in NameInputs, s \in BOOLEAN : set_object_dynamics(n, s)
    \/ \E n \in NameInputs : get_object_pose(n)
    \/ \E n \in NameInputs, p \in PositionInputs, q \in OrientationInputs :
          set_object_pose(n, p, q)
    \/ \E n \in NameInputs : get_object_global_bbox(n)
    \/ \E n \in NameInputs : get_object_bbox(n)
    \/ \E n \in NameInputs : get_object_type(n)
    \/ \E n \in NameInputs, p \in PointInputs : transform_to_obj_frame(n, p)
    \/ get_scene_objects

\* Service calls run between physics steps, never during one (the engine's
\* main thread runs the services' handler between frames).
Next ==
    \/ Services
    \/ SetPoseBody
    \/ Idle /\ PhysicsStep

Spec == Init /\ [][Next]_vars

\* The pose services with the physics engine free to step at any statement of
\* a set_object_pose in flight.
NextStepping ==
    \/ \E n \in NameInputs, p \in PositionInputs, q \in OrientationInputs :
          set_object_pose(n, p, q)
    \/ SetPoseBody
    \/ \E n \in NameInputs, s \in BOOLEAN : set_object_dynamics(n, s)
    \/ \E n \in NameInputs : get_object_pose(n)
    \/ PhysicsStep

SpecStepping == Init /\ [][NextStepping]_vars

----------------------------------------------------------------------------
(* activate and deactivate, on any component registry *)

ComponentNames == {"robot", "robot.camera", "robot.arm"}
ComponentInputs == ComponentNames \cup {"does-not-exist"}

\* what activate and deactivate leave alone
RegistryOnly ==
    UNCHANGED <<objects, request_managers, datastreams, pc, call, calls, steps,
                lastSet, obs>>

\* activate creating the entry of an unknown component instead of failing
activate_creating(component_name) ==
    /\ Idle
    /\ RegistryOnly
    /\ componentDict' = update(componentDict, component_name :> TRUE)
    /\ result' = Return("activate", component_name, None, componentDict, <<>>)

\* activate, lines 44-51: componentDict[component_name]._active = True,
\* a KeyError becomes a MorseRPCTypeError
activate(component_name) ==
    /\ Idle
    /\ RegistryOnly
    /\ IF component_name \in DOMAIN componentDict
       THEN /\ componentDict' = [componentDict EXCEPT ![component_name] = TRUE]
            /\ result' = Return("activate", component_name, None, componentDict, <<>>)
       ELSE /\ componentDict' = componentDict
            /\ result' = Raise("activate", component_name, "MorseRPCTypeError",
                               componentDict, <<>>)

\* deactivate, lines 54-61
deactivate(component_name) ==
    /\ Idle
    /\ RegistryOnly
    /\ IF component_name \in DOMAIN componentDict
       THEN /\ componentDict' = [componentDict EXCEPT ![component_name] = FALSE]
            /\ result' = Return("deactivate", component_name, None, componentDict, <<>>)
       ELSE /\ componentDict' = componentDict
            /\ result' = Raise("deactivate", component_name, "MorseRPCTypeError",
                               componentDict, <<>>)

InitComponents ==
    /\ \E present \in SUBSET ComponentNames : componentDict \in [present -> BOOLEAN]
    /\ objects = <<>>
    /\ request_managers = <<>>
    /\ datastreams = <<>>
    /\ pc = "idle"
    /\ call = NoCall
    /\ result = NoResult
    /\ calls = 0
    /\ steps = 0
    /\ lastSet = NoSet
    /\ obs = "none"

NextComponents ==
    \/ \E n \in ComponentInputs : activate(n)
    \/ \E n \in ComponentInputs : deactivate(n)

SpecComponents == InitComponents /\ [][NextComponents]_vars

----------------------------------------------------------------------------
(* get_scene_objects and get_object_pose, on any object hierarchy *)

SnapshotNames == {"A", "B", "C", "CameraFP"}

\* the parent chain of `name` reaches no object twice
RECURSIVE Rooted(_, _, _)
Rooted(parent, name, seen) ==
    \/ parent[name] = None
    \/ /\ parent[name] \notin seen
       /\ Rooted(parent, parent[name], seen \cup {parent[name]})

\* the hierarchies over SnapshotNames: every object has one parent or none,
\* and no object is its own ancestor
Hierarchies ==
    { parent \in [SnapshotNames -> SnapshotNames \cup {None}] :
        \A n \in SnapshotNames : Rooted(parent, n, {n}) }

SnapshotPositions == { <<0, 1, 0>>, <<MaxCoord, 0, 1>> }
SnapshotRotations == { to_matrix(<<0, 2, 0, 0>>), to_matrix(<<1, -1, 1, 1>>) }

InitSnapshot ==
    /\ \E parent \in Hierarchies,
          position \in [SnapshotNames -> SnapshotPositions],
          rotation \in [SnapshotNames -> SnapshotRotations] :
          objects = [n \in SnapshotNames |->
                        GameObject(parent[n], position[n], rotation[n], AtRest)]
    /\ componentDict = <<>>
    /\ request_managers = <<>>
    /\ datastreams = <<>>
    /\ pc = "idle"
    /\ call = NoCall
    /\ result = NoResult
    /\ calls = 0
    /\ steps = 0
    /\ lastSet = NoSet
    /\ obs = "none"

NextSnapshot ==
    \/ get_scene_objects
    \/ \E n \in SnapshotNames \cup {"does-not-exist"} : get_object_pose(n)

SpecSnapshot == InitSnapshot /\ [][NextSnapshot]_vars

----------------------------------------------------------------------------
(* details(), lines 86-134, on any set of attached middlewares *)

\* persistantstorage().robotDict: each robot with its components, in order
robotDict ==
    << [name |-> "r1", type |-> "ATRV", components |-> <<"c1", "c2">>],
       [name |-> "r2", type |-> "Quadrotor", components |-> <<>>] >>

\* type(c).__name__ of a component
ComponentType(c) == IF c = "c1" THEN "VideoCamera" ELSE "Gripper"

\* the names a middleware may list in services(), and the operation lists
ServiceNames == {"r1", "c1", "c2"}
OperationLists == { <<"get">>, <<"get", "set">> }

\* the services() a middleware may expose: name -> list of operation names
ServiceMaps ==
    UNION { [present -> OperationLists] : present \in SUBSET ServiceNames }

\* the stream of a component: (stream handle, interfaces serving it)
StreamOf(c) == << c \o ".stream", <<"socket">> >>

\* the items of the mapping, in iteration order
Range(seq) == { seq[i] : i \in DOMAIN seq }

\* lines 98-103: services is updated with each middleware's services() in turn,
\* services_iface collects the names of the middlewares listing a component
RECURSIVE ServicesOf(_, _)
ServicesOf(managers, n) ==
    IF n = 0 THEN <<>>
    ELSE update(ServicesOf(managers, n - 1), managers[n].services)

RECURSIVE ServicesIfaceOf(_, _)
ServicesIfaceOf(managers, n) ==
    IF n = 0 THEN <<>>
    ELSE LET before == ServicesIfaceOf(managers, n - 1)
             listed == DOMAIN managers[n].services IN
         [cmpt \in DOMAIN before \cup listed |->
             IF cmpt \in listed
             THEN Append(IF cmpt \in DOMAIN before THEN before[cmpt] ELSE <<>>,
                         managers[n].name)
             ELSE before[cmpt]]

\* cmptdetails, lines 105-117
cmptdetails(c, services, services_iface, streams) ==
    update(update("type" :> ComponentType(c),
                  IF c \in DOMAIN services
                  THEN "services" :> services[c] @@
                       "service_interfaces" :> services_iface[c]
                  ELSE <<>>),
           IF c \in DOMAIN streams
           THEN "stream" :> streams[c][1] @@ "stream_interfaces" :> streams[c][2]
           ELSE <<>>)

\* robotdetails, lines 119-127
robotdetails(r, services, services_iface, streams) ==
    update("name" :> r.name @@ "type" :> r.type @@
           "components" :>
               [c \in Range(r.components) |->
                   cmptdetails(c, services, services_iface, streams)],
           IF r.name \in DOMAIN services
           THEN "services" :> services[r.name] @@
                "services_interfaces" :> services_iface[r.name]
           ELSE <<>>)

\* lines 93-134
Details(managers, streams) ==
    LET services == ServicesOf(managers, Len(managers))
        services_iface == ServicesIfaceOf(managers, Len(managers)) IN
    "robots" :> [i \in DOMAIN robotDict |->
                    robotdetails(robotDict[i], services, services_iface, streams)]

details ==
    /\ Idle
    /\ result' = Return("details", None, Details(request_managers, datastreams),
                        NoValue, <<>>)
    /\ UNCHANGED <<objects, componentDict, request_managers, datastreams, pc, call,
                   calls, steps, lastSet, obs>>

\* the middlewares m1, m2, ... attached, each with the services it exposes
ManagerConfigurations ==
    UNION { { [i \in 1..n |-> [name |-> "m" \o ToString(i), services |-> m[i]]] :
              m \in [1..n -> ServiceMaps] } : n \in 0..MaxManagers }

InitDetails ==
    /\ request_managers \in ManagerConfigurations
    /\ \E streamed \in SUBSET {"c1", "c2"} :
          datastreams = [c \in streamed |-> StreamOf(c)]
    /\ componentDict = [c \in {"c1", "c2"} |-> TRUE]
    /\ objects = <<>>
    /\ pc = "idle"
    /\ call = NoCall
    /\ result = NoResult
    /\ calls = 0
    /\ steps = 0
    /\ lastSet = NoSet
    /\ obs = "none"

NextDetails == details

SpecDetails == InitDetails /\ [][NextDetails]_vars

----------------------------------------------------------------------------
(* Properties *)

\* the services that take an object name
NameOperations ==
    {"set_object_visibility", "set_object_dynamics", "get_object_pose",
     "set_object_pose", "get_object_global_bbox", "get_object_bbox",
     "get_object_type", "transform_to_obj_frame"}

\* the engine calls of a complete set_object_pose, and the stage of each:
\* 1 suspend, 2 bring to rest, 3 write the pose, 4 resume
PoseSteps ==
    {"suspendDynamics", "setLinearVelocity", "setAngularVelocity", "applyForce",
     "applyTorque", "worldPosition", "worldOrientation", "restoreDynamics"}

Stage(step) ==
    CASE step = "suspendDynamics" -> 1
      [] step \in {"setLinearVelocity", "setAngularVelocity", "applyForce",
                   "applyTorque"} -> 2
      [] step \in {"worldPosition", "worldOrientation"} -> 3
      [] step = "restoreDynamics" -> 4

\* the engine calls of `log` are made once each and stage after stage
InStageOrder(log) ==
    /\ \A i, j \in DOMAIN log : i < j => log[i] # log[j] /\ Stage(log[i]) <= Stage(log[j])
    /\ Range(log) \subseteq PoseSteps

IsAtRest(o) ==
    o.linV = Zero3 /\ o.angV = Zero3 /\ o.force = Zero3 /\ o.torque = Zero3

\* C1: a set_object_pose that fails leaves the scene as it was before the call:
\* no object's velocity, force, torque, position, orientation or suspended
\* state differs, and no object is left with its physics suspended.
C1_FailureLeavesSceneUntouched ==
    (result.op = "set_object_pose" /\ result.status = "fault")
        => objects = result.pre

\* C2: in a set_object_pose the engine calls are made stage after stage
\* (suspend; linear velocity, angular velocity, force, torque to zero; position
\* and orientation; resume), a successful call makes all of them, and when the
\* pose is written the object is suspended and at rest.
C2_SuspendZeroWriteRestore ==
    /\ ~Idle => InStageOrder(call.log)
    /\ pc \in {"worldPosition", "worldOrientation", "restoreDynamics"}
          => objects[call.name].suspended /\ IsAtRest(objects[call.name])
    /\ (result.op = "set_object_pose" /\ result.status = "ok")
          => /\ InStageOrder(result.log)
             /\ Range(result.log) = PoseSteps
             /\ ~objects[result.name].suspended

\* a successful set_object_pose of an object that was moving and not suspended
C2_Witness ==
    /\ result.op = "set_object_pose"
    /\ result.status = "ok"
    /\ ~IsAtRest(result.pre[result.name])
    /\ ~result.pre[result.name].suspended

\* C3: no physics step integrates an object whose position a set_object_pose
\* in flight has written and whose orientation it has not yet written.
C3_NoHalfAppliedPoseIntegrated == obs # "integrated"

\* a physics step ran between the two writes and passed over the object
C3_Witness == obs = "skipped" /\ pc = "worldOrientation"

\* C4: a service taking an object name, called with a name that is not in the
\* scene, fails with get_obj_by_name's MorseRPCInvokationError and leaves the
\* scene as it was.
C4_UnknownNameFails ==
    (result.op \in NameOperations /\ result.name \notin DOMAIN result.pre)
        => /\ result.status = "fault"
           /\ result.fault = "MorseRPCInvokationError"
           /\ objects = result.pre
           /\ Idle

\* set_object_pose of an unknown name, in a scene that is no longer the initial one
C4_Witness ==
    /\ result.op = "set_object_pose"
    /\ result.name = "does-not-exist"
    /\ result.status = "fault"
    /\ objects # InitScene

\* C5: activate and deactivate of a name that is not in the component registry
\* fail with a MorseRPCTypeError, change no component's active flag and add no
\* entry to the registry.
C5_UnknownComponentFails ==
    (result.op \in {"activate", "deactivate"} /\ result.name \notin DOMAIN result.pre)
        => /\ result.status = "fault"
           /\ result.fault = "MorseRPCTypeError"
           /\ componentDict = result.pre

\* activate of an unknown name on a registry holding an inactive component
C5_Witness ==
    /\ result.op = "activate"
    /\ result.name = "does-not-exist"
    /\ result.status = "fault"
    /\ \E c \in DOMAIN componentDict : ~componentDict[c]

Negated(q) == <<0 - q[1], 0 - q[2], 0 - q[3], 0 - q[4]>>

\* C6: get_object_pose right after a successful set_object_pose(name, p, q) of
\* the same object returns p, and q or -q, in the order w, x, y, z.
C6_PoseRoundTrip ==
    (/\ result.op = "get_object_pose"
     /\ result.status = "ok"
     /\ lastSet.name = result.name)
        => /\ result.value.items[1] = lastSet.position
           /\ \/ result.value.items[2] = lastSet.orientation
              \/ result.value.items[2] = Negated(lastSet.orientation)

\* the round trip of a quaternion with a negative scalar part and three
\* different vector components
C6_Witness ==
    /\ result.op = "get_object_pose"
    /\ result.status = "ok"
    /\ lastSet.name = result.name
    /\ lastSet.orientation = <<-1, 1, -1, 1>>
    /\ lastSet.position = <<0, MaxCoord, 1>>

----------------------------------------------------------------------------
(* Properties of the scene snapshot *)

\* the names from the parentless ancestor of `name` down to `name`
RECURSIVE PathTo(_, _)
PathTo(scene, name) ==
    IF scene[name].parent = None THEN <<name>>
    ELSE Append(PathTo(scene, scene[name].parent), name)

\* the number of nodes of the snapshot `structure` that are keyed `name`
RECURSIVE NodeCount(_, _)
RECURSIVE NodeCountIn(_, _, _)
NodeCount(structure, name) == NodeCountIn(structure, DOMAIN structure, name)

NodeCountIn(structure, keys, name) ==
    IF keys = {} THEN 0
    ELSE LET k == CHOOSE x \in keys : TRUE IN
         (IF k = name THEN 1 ELSE 0)
         + NodeCount(structure[k][1], name)
         + NodeCountIn(structure, keys \ {k}, name)

\* the snapshot has a node at `path`: path[1] at the top level, each next name
\* in the children map of the one before
RECURSIVE HasNode(_, _)
HasNode(structure, path) ==
    /\ path[1] \in DOMAIN structure
    /\ Len(path) > 1 => HasNode(structure[path[1]][1], Tail(path))

RECURSIVE NodeAt(_, _)
NodeAt(structure, path) ==
    IF Len(path) = 1 THEN structure[path[1]]
    ELSE NodeAt(structure[path[1]][1], Tail(path))

\* the world orientation of an object as the quaternion <<x, y, z, w>>
WorldQuaternionXYZW(o) ==
    LET q == to_quaternion(o.worldOrientation) IN <<q.x, q.y, q.z, q.w>>

\* C7: the snapshot holds every object below a parentless object that is not
\* excluded exactly once, in the children map of its direct parent, with the
\* object's own world position and world orientation.
C7_SnapshotNestsWorldPoses ==
    result.op = "get_scene_objects" =>
        \A o \in DOMAIN objects :
            LET path == PathTo(objects, o) IN
            path[1] \notin remove_items =>
                /\ NodeCount(result.value, o) = 1
                /\ HasNode(result.value, path)
                /\ NodeAt(result.value, path)[2] = objects[o].worldPosition
                /\ NodeAt(result.value, path)[3] = WorldQuaternionXYZW(objects[o])

\* the snapshot of A -> B -> C, with A, B and C at different places
C7_Witness ==
    /\ result.op = "get_scene_objects"
    /\ objects["A"].parent = None
    /\ objects["B"].parent = "A"
    /\ objects["C"].parent = "B"
    /\ objects["B"].worldPosition # objects["A"].worldPosition
    /\ objects["C"].worldPosition # objects["B"].worldPosition
    /\ HasNode(result.value, <<"A", "B", "C">>)

\* C8: the top-level keys of the snapshot are the names of the parentless
\* objects that are not Scene_Script_Holder, CameraFP or __default__cam__.
C8_TopLevelKeys ==
    result.op = "get_scene_objects" =>
        DOMAIN result.value =
            { o \in DOMAIN objects :
                /\ objects[o].parent = None
                /\ o \notin {"Scene_Script_Holder", "CameraFP", "__default__cam__"} }

\* the snapshot of a scene with CameraFP parentless and the parent of an object
C8_Witness ==
    /\ result.op = "get_scene_objects"
    /\ objects["CameraFP"].parent = None
    /\ \E o \in DOMAIN objects : objects[o].parent = "CameraFP"
    /\ \E o \in DOMAIN objects : objects[o].parent = None /\ o # "CameraFP"

\* the nodes of the snapshot: the objects below a parentless object that is
\* not excluded
SnapshotNodes(scene) ==
    { o \in DOMAIN scene : PathTo(scene, o)[1] \notin remove_items }

\* C10 as stated: a snapshot node and get_object_pose list the four components
\* of an object's orientation in the same order, w, x, y, z.
C10_SameOrderEverywhere ==
    result.op = "get_scene_objects" =>
        \A o \in SnapshotNodes(objects) :
            NodeAt(result.value, PathTo(objects, o))[3]
                = ObjectPose(objects[o]).items[2]

\* C10 amended: get_object_pose lists the orientation scalar first,
\* <<w, x, y, z>>, and a snapshot node lists the same four components scalar
\* last, <<x, y, z, w>>.
C10_SnapshotScalarLast ==
    result.op = "get_scene_objects" =>
        \A o \in SnapshotNodes(objects) :
            LET node == NodeAt(result.value, PathTo(objects, o))[3]
                pose == ObjectPose(objects[o]).items[2]
                q == to_quaternion(objects[o].worldOrientation) IN
            /\ pose = <<q.w, q.x, q.y, q.z>>
            /\ node = <<pose[2], pose[3], pose[4], pose[1]>>

\* the snapshot of an object whose quaternion has four different-looking
\* places: w = 1/2, x = -1/2, y = z = 1/2
C10_Witness ==
    /\ result.op = "get_scene_objects"
    /\ objects["A"].parent = None
    /\ ObjectPose(objects["A"]).items[2] = <<1, -1, 1, 1>>
    /\ NodeAt(result.value, <<"A">>)[3] = <<-1, 1, 1, 1>>

----------------------------------------------------------------------------
(* Properties of details() *)

\* the middlewares whose services() lists `name`
Listing(name) ==
    { i \in DOMAIN request_managers : name \in DOMAIN request_managers[i].services }

\* the entry of `name` in the report names its services and interfaces under
\* `services_key` and `interfaces_key` exactly when a middleware lists `name`:
\* then the interfaces are the middlewares listing it, and the services are
\* the operations those middlewares expose for it
CrossReferenced(entry, name, services_key, interfaces_key) ==
    /\ services_key \in DOMAIN entry <=> Listing(name) # {}
    /\ interfaces_key \in DOMAIN entry <=> Listing(name) # {}
    /\ Listing(name) # {} =>
          /\ Range(entry[interfaces_key])
                = { request_managers[i].name : i \in Listing(name) }
          /\ Len(entry[interfaces_key]) = Cardinality(Listing(name))
          /\ Range(entry[services_key])
                = UNION { Range(request_managers[i].services[name]) :
                          i \in Listing(name) }

\* the stream keys are there exactly when the component has a data stream
StreamReported(entry, c) ==
    /\ "stream" \in DOMAIN entry <=> c \in DOMAIN datastreams
    /\ "stream_interfaces" \in DOMAIN entry <=> c \in DOMAIN datastreams
    /\ c \in DOMAIN datastreams =>
          /\ entry["stream"] = datastreams[c][1]
          /\ entry["stream_interfaces"] = datastreams[c][2]

\* C9: in details(), every robot and every component has its service keys
\* exactly when a middleware lists it, with the operations exposed by the
\* middlewares of its interface list and with exactly the listing middlewares
\* as interface list, and its stream keys exactly when it has a data stream.
C9_DetailsCrossReferenced ==
    result.op = "details" =>
        \A i \in DOMAIN robotDict :
            LET robot == result.value["robots"][i] IN
            /\ CrossReferenced(robot, robotDict[i].name, "services",
                               "services_interfaces")
            /\ \A c \in Range(robotDict[i].components) :
                  /\ CrossReferenced(robot["components"][c], c, "services",
                                     "service_interfaces")
                  /\ StreamReported(robot["components"][c], c)

====
